---------------------------- MODULE Spec2Model ----------------------------
(***************************************************************************)
(* A model of PlanetViewer.py: the classifier categorize_type, the EveDB   *)
(* catalog store (one SQLite connection guarded by one lock), the refresh  *)
(* worker started by App.fetch_data and the Tk main loop that serves the   *)
(* user's events.                                                          *)
(*                                                                         *)
(* Text is modelled as a sequence of one-character strings, so that        *)
(* lower-casing and substring tests are computed, not assumed.             *)
(***************************************************************************)
EXTENDS Integers, Sequences, FiniteSets, TLC

VARIABLES
    label,      \* classifier: the argument type_name
    result,     \* classifier: the value returned, "pending" before the call
    db,         \* the connection's view of the five tables, indices, pragmas
    saved,      \* the last committed tables and indices (what rollback restores)
    inTxn,      \* the connection has an open transaction
    pragmas,    \* the connection's synchronous, temp_store and cache_size
    lock,       \* holder of EveDB.lock: "none", "worker" or "ui"
    w,          \* the worker thread of fetch_data (work) and its locals
    ui,         \* the Tk main loop: widgets' state and the handler in progress
    afterq,     \* callbacks posted with root.after(0, ...) and not yet run
    hist        \* observations kept for the properties (not program state)

vars == <<label, result, db, saved, inTxn, pragmas, lock, w, ui, afterq, hist>>

----------------------------------------------------------------------------
(* Text *)

\* Python's None for a text value: no text is a sequence of this token.
NoneStr == <<"<None>">>

UpperCase == <<"A","B","C","D","E","F","G","H","I","J","K","L","M",
               "N","O","P","Q","R","S","T","U","V","W","X","Y","Z">>
LowerCase == <<"a","b","c","d","e","f","g","h","i","j","k","l","m",
               "n","o","p","q","r","s","t","u","v","w","x","y","z">>

\* str.lower() on one character
LowerChar(c) ==
    IF \E i \in 1..Len(UpperCase) : UpperCase[i] = c
    THEN LowerCase[CHOOSE i \in 1..Len(UpperCase) : UpperCase[i] = c]
    ELSE c

\* str.lower()
Lower(s) == [i \in 1..Len(s) |-> LowerChar(s[i])]

\* Python's  k in t  for strings
Contains(t, k) ==
    \E i \in 0..(Len(t) - Len(k)) : SubSeq(t, i + 1, i + Len(k)) = k

\* (type_name or ""): None and the empty string both give ""
OrEmpty(s) == IF s = NoneStr THEN <<>> ELSE s

kwTemperate == <<"t","e","m","p","e","r","a","t","e">>
kwIce       == <<"i","c","e">>
kwGas       == <<"g","a","s">>
kwOceanic   == <<"o","c","e","a","n","i","c">>
kwLava      == <<"l","a","v","a">>
kwPlasma    == <<"p","l","a","s","m","a">>
kwStorm     == <<"s","t","o","r","m">>
kwShattered == <<"s","h","a","t","t","e","r","e","d">>
kwScorched  == <<"s","c","o","r","c","h","e","d">>
kwBarren    == <<"b","a","r","r","e","n">>

PLANET_TYPES == <<"Temperate", "Ice", "Gas", "Oceanic", "Lava",
                  "Barren", "Storm", "Plasma", "Shattered", "Scorched Barren">>

PlanetTypeSet == {PLANET_TYPES[i] : i \in 1..Len(PLANET_TYPES)}

\* categorize_type with the scorched and barren tests exchanged
categorize_type_barren_first(type_name) ==
    LET t == Lower(OrEmpty(type_name)) IN
    IF Contains(t, kwTemperate) THEN "Temperate"
    ELSE IF Contains(t, kwIce) THEN "Ice"
    ELSE IF Contains(t, kwGas) THEN "Gas"
    ELSE IF Contains(t, kwOceanic) THEN "Oceanic"
    ELSE IF Contains(t, kwLava) THEN "Lava"
    ELSE IF Contains(t, kwPlasma) THEN "Plasma"
    ELSE IF Contains(t, kwStorm) THEN "Storm"
    ELSE IF Contains(t, kwShattered) THEN "Shattered"
    ELSE IF Contains(t, kwBarren) THEN "Barren"
    ELSE IF Contains(t, kwScorched) THEN "Scorched Barren"
    ELSE "Barren"

\* categorize_type with the storm test ahead of the plasma test (the display
\* order of PLANET_TYPES instead of the rule order)
categorize_type_storm_first(type_name) ==
    LET t == Lower(OrEmpty(type_name)) IN
    IF Contains(t, kwTemperate) THEN "Temperate"
    ELSE IF Contains(t, kwIce) THEN "Ice"
    ELSE IF Contains(t, kwGas) THEN "Gas"
    ELSE IF Contains(t, kwOceanic) THEN "Oceanic"
    ELSE IF Contains(t, kwLava) THEN "Lava"
    ELSE IF Contains(t, kwStorm) THEN "Storm"
    ELSE IF Contains(t, kwPlasma) THEN "Plasma"
    ELSE IF Contains(t, kwShattered) THEN "Shattered"
    ELSE IF Contains(t, kwScorched) THEN "Scorched Barren"
    ELSE IF Contains(t, kwBarren) THEN "Barren"
    ELSE "Barren"

categorize_type(type_name) ==
    LET t == Lower(OrEmpty(type_name)) IN
    IF Contains(t, kwTemperate) THEN "Temperate"
    ELSE IF Contains(t, kwIce) THEN "Ice"
    ELSE IF Contains(t, kwGas) THEN "Gas"
    ELSE IF Contains(t, kwOceanic) THEN "Oceanic"
    ELSE IF Contains(t, kwLava) THEN "Lava"
    ELSE IF Contains(t, kwPlasma) THEN "Plasma"
    ELSE IF Contains(t, kwStorm) THEN "Storm"
    ELSE IF Contains(t, kwShattered) THEN "Shattered"
    ELSE IF Contains(t, kwScorched) THEN "Scorched Barren"
    ELSE IF Contains(t, kwBarren) THEN "Barren"
    ELSE "Barren"


----------------------------------------------------------------------------
(* Source rows: csv.DictReader gives every field as text, or None *)

\* Python's None for an integer or real value
NULL == -1

\* r.get(column) when the column is absent
NoneRaw == "<None>"

Digits == <<"0", "1", "2", "3", "4", "5", "6", "7", "8", "9">>

\* try_int: int(x), or None when int() raises (None, "", text that is no number)
try_int(x) ==
    IF \E i \in 1..Len(Digits) : Digits[i] = x
    THEN (CHOOSE i \in 1..Len(Digits) : Digits[i] = x) - 1
    ELSE NULL

\* try_float, for the radii used here (whole metres)
try_float(x) ==
    CASE x = "6000000" -> 6000000
      [] x = "3000"    -> 3000
      [] OTHER         -> NULL

\* Python's truth value of an optional integer: None and 0 are false
Truthy(n) == n # NULL /\ n # 0

\* Python's truth value of an optional text: None and "" are false
TruthyStr(s) == s # NoneStr /\ s # <<>>

\* a or b  on optional texts
OrStr(a, b) == IF TruthyStr(a) THEN a ELSE b

\* INSERT OR IGNORE: the row already stored under the key stays
Upsert_keeps_first(tbl, key, row) ==
    [k \in (DOMAIN tbl) \cup {key} |-> IF k \in DOMAIN tbl THEN tbl[k] ELSE row]

\* INSERT OR REPLACE of one row into a table keyed by its primary key
Upsert(tbl, key, row) ==
    [k \in (DOMAIN tbl) \cup {key} |-> IF k = key THEN row ELSE tbl[k]]

EmptyTable == <<>>

IndexNames == {"idx_planets_region", "idx_planets_constellation", "idx_planets_system"}

\* the store after _ensure_schema on a new file
EmptyDb ==
    [invTypes          |-> EmptyTable,
     mapRegions        |-> EmptyTable,
     mapConstellations |-> EmptyTable,
     mapSolarSystems   |-> EmptyTable,
     planets           |-> EmptyTable,
     indices           |-> IndexNames]

\* PRAGMA synchronous=NORMAL of __init__; SQLite's defaults for the other two
InitPragmas == [synchronous |-> "NORMAL", temp_store |-> "DEFAULT", cache_size |-> "-2000"]

\* the three PRAGMAs of the rebuild
RelaxedPragmas == [synchronous |-> "OFF", temp_store |-> "MEMORY", cache_size |-> "-200000"]

\* clear_all: the five DELETEs
ClearedDb(d) ==
    [d EXCEPT !.planets = EmptyTable, !.invTypes = EmptyTable,
              !.mapSolarSystems = EmptyTable, !.mapConstellations = EmptyTable,
              !.mapRegions = EmptyTable]

\* import_csv_invTypes: the rows of the file upserted in order
RECURSIVE ImportInvTypes(_, _)
ImportInvTypes(tbl, rows) ==
    IF rows = <<>> THEN tbl
    ELSE LET r == Head(rows)
             typeID == try_int(r.typeID)
             groupID == try_int(r.groupID)
         IN IF typeID = NULL
            THEN ImportInvTypes(tbl, Tail(rows))
            ELSE ImportInvTypes(
                    Upsert(tbl, typeID, [groupID |-> groupID, typeName |-> r.typeName]),
                    Tail(rows))

\* import_csv_mapRegions
RECURSIVE ImportRegions(_, _)
ImportRegions(tbl, rows) ==
    IF rows = <<>> THEN tbl
    ELSE LET r == Head(rows)
             regionID == try_int(r.regionID)
             name == OrStr(r.regionName, r.name)
         IN IF regionID = NULL \/ ~TruthyStr(name)
            THEN ImportRegions(tbl, Tail(rows))
            ELSE ImportRegions(Upsert(tbl, regionID, [regionName |-> name]), Tail(rows))

\* import_csv_mapConstellations
RECURSIVE ImportConstellations(_, _)
ImportConstellations(tbl, rows) ==
    IF rows = <<>> THEN tbl
    ELSE LET r == Head(rows)
             constellationID == try_int(r.constellationID)
             regionID == try_int(r.regionID)
             name == OrStr(r.constellationName, r.name)
         IN IF constellationID = NULL \/ regionID = NULL
            THEN ImportConstellations(tbl, Tail(rows))
            ELSE ImportConstellations(
                    Upsert(tbl, constellationID,
                           [regionID |-> regionID, constellationName |-> name]),
                    Tail(rows))

\* import_csv_mapSolarSystems
RECURSIVE ImportSolarSystems(_, _)
ImportSolarSystems(tbl, rows) ==
    IF rows = <<>> THEN tbl
    ELSE LET r == Head(rows)
             solarSystemID == try_int(r.solarSystemID)
             constellationID == try_int(r.constellationID)
             name == OrStr(r.solarSystemName, r.name)
         IN IF solarSystemID = NULL \/ constellationID = NULL
            THEN ImportSolarSystems(tbl, Tail(rows))
            ELSE ImportSolarSystems(
                    Upsert(tbl, solarSystemID,
                           [constellationID |-> constellationID, solarSystemName |-> name]),
                    Tail(rows))

\* the group of planets in invTypes and mapDenormalize
PLANET_GROUP == 7

\* type_map: typeID -> typeName of the invTypes rows of the planet group
TypeMap(invTypes) ==
    [t \in {k \in DOMAIN invTypes : invTypes[k].groupID = PLANET_GROUP}
        |-> invTypes[t].typeName]

\* type_map.get(typeID)
TypeMapGet(type_map, typeID) ==
    IF typeID \in DOMAIN type_map THEN type_map[typeID] ELSE NoneStr

\* the loop body without its test of groupID
RowAccepted_any_group(r) ==
    /\ Truthy(try_int(r.itemID))
    /\ Truthy(try_int(r.typeID))
    /\ Truthy(try_int(r.solarSystemID))

\* the loop body of the rebuild up to the two continue statements: TRUE when
\* the source row is kept
RowAccepted(r) ==
    /\ try_int(r.groupID) = PLANET_GROUP
    /\ Truthy(try_int(r.itemID))
    /\ Truthy(try_int(r.typeID))
    /\ Truthy(try_int(r.solarSystemID))

\* the tuple appended to rows for an accepted source row
PlanetRow(type_map, r) ==
    LET typeID == try_int(r.typeID)
        typeName == TypeMapGet(type_map, typeID)
        radius_m == try_float(r.radius)
    IN [itemID          |-> try_int(r.itemID),
        typeID          |-> typeID,
        groupID         |-> try_int(r.groupID),
        category        |-> categorize_type(typeName),
        typeName        |-> typeName,
        itemName        |-> r.itemName,
        solarSystemID   |-> try_int(r.solarSystemID),
        constellationID |-> try_int(r.constellationID),
        regionID        |-> try_int(r.regionID),
        orbitalID       |-> IF r.orbitalID # NoneRaw THEN try_int(r.orbitalID)
                                                     ELSE try_int(r.orbitID),
        radius_km       |-> IF radius_m # NULL THEN radius_m \div 1000 ELSE NULL]

\* a plain INSERT into a table without a primary key: every row of the batch
\* is added under a new rowid
RECURSIVE InsertPlanets_appends(_, _)
InsertPlanets_appends(tbl, batch) ==
    IF batch = <<>> THEN tbl
    ELSE InsertPlanets_appends(
            [k \in (DOMAIN tbl) \cup {Cardinality(DOMAIN tbl) + 100} |->
                IF k \in DOMAIN tbl THEN tbl[k] ELSE Head(batch)],
            Tail(batch))

\* executemany(INSERT OR REPLACE INTO planets ...) of a batch, in order
RECURSIVE InsertPlanets(_, _)
InsertPlanets(tbl, batch) ==
    IF batch = <<>> THEN tbl
    ELSE InsertPlanets(Upsert(tbl, Head(batch).itemID, Head(batch)), Tail(batch))

----------------------------------------------------------------------------
(* Queries *)

\* the name filter of the listing and total queries:
\* name IS NOT NULL AND TRIM(name) <> '' AND LOWER(name) <> 'no name'
ValidName(name) ==
    /\ name # NoneStr
    /\ \E i \in 1..Len(name) : name[i] # " "
    /\ Lower(name) # <<"n","o"," ","n","a","m","e">>

\* list_regions, as the set of ids listed
list_regions(d) ==
    {k \in DOMAIN d.mapRegions : ValidName(d.mapRegions[k].regionName)}

\* constellations_in_region, as the set of ids listed
constellations_in_region(d, region_id) ==
    {k \in DOMAIN d.mapConstellations :
        /\ region_id # NULL
        /\ d.mapConstellations[k].regionID = region_id
        /\ ValidName(d.mapConstellations[k].constellationName)}

\* count_planets_region: SELECT COUNT(1) FROM planets WHERE regionID = ?
count_planets_region(d, region_id) ==
    Cardinality({k \in DOMAIN d.planets :
                    region_id # NULL /\ d.planets[k].regionID = region_id})

\* the order in which GROUP BY category returns its groups: NULL first, then
\* text in byte order; the ten categories and the other values the stores
\* tried hold in the column
GroupOrder == <<NoneRaw, "Asteroid", "Barren", "Gas", "Ice", "Lava", "Oceanic", "Plasma",
                "Scorched Barren", "Shattered", "Storm", "Temperate", "Unknown">>

\* SELECT category, COUNT(1) ... GROUP BY category over the rows in scope
GroupByCategory(rows) ==
    LET n(c) == Cardinality({r \in rows : r.category = c})
        RECURSIVE G(_)
        G(i) == IF i > Len(GroupOrder) THEN <<>>
                ELSE IF n(GroupOrder[i]) > 0
                     THEN <<[cat |-> GroupOrder[i], c |-> n(GroupOrder[i])]>> \o G(i + 1)
                     ELSE G(i + 1)
    IN G(1)

\* the loop of counts_by_category_*: counts[cat] = c for a known category,
\* counts["Barren"] += c for any other
RECURSIVE CountsLoop(_, _)
CountsLoop(counts, groups) ==
    IF groups = <<>> THEN counts
    ELSE LET g == Head(groups) IN
         CountsLoop(
            IF g.cat \in DOMAIN counts
            THEN [counts EXCEPT ![g.cat] = g.c]
            ELSE [counts EXCEPT !["Barren"] = @ + g.c],
            Tail(groups))

ZeroCounts == [k \in PlanetTypeSet |-> 0]

PlanetRows(d) == {d.planets[k] : k \in DOMAIN d.planets}

\* counts_by_category_region with the scope of counts_by_category_constellation
counts_by_category_region_wrong_scope(d, region_id) ==
    CountsLoop(ZeroCounts,
        GroupByCategory({r \in PlanetRows(d) :
                            region_id # NULL /\ r.constellationID = region_id}))

counts_by_category_region(d, region_id) ==
    CountsLoop(ZeroCounts,
        GroupByCategory({r \in PlanetRows(d) :
                            region_id # NULL /\ r.regionID = region_id}))

\* sum(counts.values())
SumCounts(counts) ==
    LET RECURSIVE S(_)
        S(i) == IF i > Len(PLANET_TYPES) THEN 0 ELSE counts[PLANET_TYPES[i]] + S(i + 1)
    IN S(1)

\* count_planets_constellation
count_planets_constellation(d, constellation_id) ==
    Cardinality({k \in DOMAIN d.planets :
                    constellation_id # NULL /\ d.planets[k].constellationID = constellation_id})

counts_by_category_system(d, system_id) ==
    CountsLoop(ZeroCounts,
        GroupByCategory({r \in PlanetRows(d) :
                            system_id # NULL /\ r.solarSystemID = system_id}))

counts_by_category_constellation(d, constellation_id) ==
    CountsLoop(ZeroCounts,
        GroupByCategory({r \in PlanetRows(d) :
                            constellation_id # NULL /\ r.constellationID = constellation_id}))

\* ORDER BY orbitalID: ascending, SQLite placing NULL before every value; rows
\* of equal orbitalID come in rowid (itemID) order
OrbitalBefore(a, b) ==
    IF a.orbitalID = b.orbitalID THEN a.itemID < b.itemID
    ELSE IF a.orbitalID = NULL THEN TRUE
    ELSE IF b.orbitalID = NULL THEN FALSE
    ELSE a.orbitalID < b.orbitalID

\* planets_in_system: the five selected columns of the system's rows, in order
planets_in_system(d, system_id) ==
    LET RECURSIVE Sorted(_)
        Sorted(rest) ==
            IF rest = {} THEN <<>>
            ELSE LET m == CHOOSE x \in rest : \A y \in rest \ {x} : OrbitalBefore(x, y)
                 IN <<[itemID |-> m.itemID, itemName |-> m.itemName,
                       radius_km |-> m.radius_km, typeName |-> m.typeName,
                       category |-> m.category]>> \o Sorted(rest \ {m})
    IN Sorted({r \in PlanetRows(d) : system_id # NULL /\ r.solarSystemID = system_id})

\* systems_in_constellation, as the set of ids listed
systems_in_constellation(d, constellation_id) ==
    {k \in DOMAIN d.mapSolarSystems :
        /\ constellation_id # NULL
        /\ d.mapSolarSystems[k].constellationID = constellation_id
        /\ ValidName(d.mapSolarSystems[k].solarSystemName)}

\* total_regions counting every row of mapRegions
total_regions_counts_all(d) == Cardinality(DOMAIN d.mapRegions)

\* total_regions: SELECT COUNT(*) FROM mapRegions WHERE <the name filter>
total_regions(d) ==
    Cardinality({k \in DOMAIN d.mapRegions : ValidName(d.mapRegions[k].regionName)})

total_constellations(d) ==
    Cardinality({k \in DOMAIN d.mapConstellations :
                    ValidName(d.mapConstellations[k].constellationName)})

total_systems(d) ==
    Cardinality({k \in DOMAIN d.mapSolarSystems :
                    ValidName(d.mapSolarSystems[k].solarSystemName)})

\* total_planets without the name filter on the joined region
total_planets_unfiltered(d) ==
    Cardinality({k \in DOMAIN d.planets : d.planets[k].regionID \in DOMAIN d.mapRegions})

\* total_planets: planets JOIN mapRegions ON regionID WHERE <the name filter>
total_planets(d) ==
    Cardinality({k \in DOMAIN d.planets :
                    \E r \in DOMAIN d.mapRegions :
                        /\ r = d.planets[k].regionID
                        /\ ValidName(d.mapRegions[r].regionName)})

\* str() that keeps the last digit only
RECURSIVE str_last_digit(_)
str_last_digit(n) ==
    IF n = NULL THEN <<"N","o","n","e">> ELSE <<Digits[(n % 10) + 1]>>

\* Python's str() of an optional non-negative integer
RECURSIVE str(_)
str(n) ==
    IF n = NULL THEN <<"N","o","n","e">>
    ELSE IF n < 10 THEN <<Digits[n + 1]>>
    ELSE str(n \div 10) \o <<Digits[(n % 10) + 1]>>

\* region_name: row[0] if row else str(region_id)
region_name(d, region_id) ==
    IF region_id # NULL /\ region_id \in DOMAIN d.mapRegions
    THEN d.mapRegions[region_id].regionName
    ELSE str(region_id)

constellation_name(d, constellation_id) ==
    IF constellation_id # NULL /\ constellation_id \in DOMAIN d.mapConstellations
    THEN d.mapConstellations[constellation_id].constellationName
    ELSE str(constellation_id)

system_name(d, system_id) ==
    IF system_id # NULL /\ system_id \in DOMAIN d.mapSolarSystems
    THEN d.mapSolarSystems[system_id].solarSystemName
    ELSE str(system_id)

----------------------------------------------------------------------------
(* The source files tried *)

\* rows of mapDenormalize.csv per file, at most
MaxRows == 3

\* PLANET_BATCH_SIZE, scaled from the source's 20000 to the files tried here so
\* that a rebuild flushes full batches before its last, partial one
PLANET_BATCH_SIZE == 2

tLava     == <<"L","a","v","a">>
tBarren   == <<"B","a","r","r","e","n">>
tScorched == <<"S","c","o","r","c","h","e","d"," ","B","a","r","r","e","n">>
tSun      == <<"S","u","n">>
nForge    == <<"F","o","r","g","e">>
nDomain   == <<"D","o","m","a","i","n">>
nNoName   == <<"N","o"," ","N","a","m","e">>
nP1       == <<"P"," ","I">>
nP2       == <<"P"," ","I","I">>

TRow(id, g, name) == [typeID |-> id, groupID |-> g, typeName |-> name]
RRow(id, name) == [regionID |-> id, regionName |-> name, name |-> NoneStr]
CRow(id, rid, name) ==
    [constellationID |-> id, regionID |-> rid, constellationName |-> name, name |-> NoneStr]
SRow(id, cid, name) ==
    [solarSystemID |-> id, constellationID |-> cid, solarSystemName |-> name, name |-> NoneStr]
DRow(g, item, type, sys, con, reg, orb, name) ==
    [groupID |-> g, itemID |-> item, typeID |-> type, solarSystemID |-> sys,
     constellationID |-> con, regionID |-> reg, orbitalID |-> orb, orbitID |-> NoneRaw,
     radius |-> "6000000", itemName |-> name]

TypeFiles ==
    { << TRow("1", "7", tLava), TRow("2", "7", tBarren), TRow("3", "8", tSun) >>,
      << TRow("1", "7", tScorched), TRow("", "7", tLava) >> }

RegionFiles ==
    { << RRow("1", nForge), RRow("2", nNoName) >>,
      << RRow("1", nDomain), RRow("2", nForge), RRow("", nForge) >> }

ConstellationFiles ==
    { << CRow("1", "1", nForge), CRow("2", "2", nDomain) >> }

SolarSystemFiles ==
    { << SRow("1", "1", nForge), SRow("2", "2", nDomain) >> }

DenormRows ==
    { DRow("7", "1", "1", "1", "1", "1", "1", nP1),
      DRow("7", "2", "2", "1", "2", "1", "2", nP2),
      DRow("7", "1", "3", "2", "2", "2", NoneRaw, nP1),
      DRow("5", "3", "1", "1", "1", "1", "3", nP1) }

\* the files tried: at most MaxRows rows, no row twice (two rows may still
\* carry the same itemID)
DenormFiles ==
    {f \in UNION {[1..n -> DenormRows] : n \in 0..MaxRows} :
        \A i, j \in 1..Len(f) : f[i] = f[j] => i = j}

DATA_FILES == <<"invTypes.csv", "mapDenormalize.csv", "mapSolarSystems.csv",
                "mapConstellations.csv", "mapRegions.csv">>

\* what a direct caller of the store may pass as the named file
FilesOf(fname) ==
    CASE fname = "invTypes.csv"          -> TypeFiles
      [] fname = "mapDenormalize.csv"    -> DenormFiles
      [] fname = "mapSolarSystems.csv"   -> SolarSystemFiles
      [] fname = "mapConstellations.csv" -> ConstellationFiles
      [] fname = "mapRegions.csv"        -> RegionFiles
      [] OTHER                           -> {<<>>}

\* what a download of the named file may deliver in a refresh
DownloadsOf(fname) ==
    CASE fname = "invTypes.csv" ->
            { << TRow("1", "7", tLava), TRow("2", "7", tBarren), TRow("3", "8", tSun) >> }
      [] fname = "mapDenormalize.csv" ->
            { << DRow("7", "1", "1", "1", "1", "1", "1", nP1),
                 DRow("7", "2", "2", "1", "1", "1", "2", nP2),
                 DRow("7", "3", "3", "2", "2", "2", NoneRaw, nP1) >>,
              << DRow("7", "1", "2", "2", "2", "2", "1", nP1) >> }
      [] fname = "mapSolarSystems.csv"   -> SolarSystemFiles
      [] fname = "mapConstellations.csv" -> ConstellationFiles
      [] fname = "mapRegions.csv"        -> RegionFiles

NoFiles == [f \in {DATA_FILES[i] : i \in 1..Len(DATA_FILES)} |-> <<>>]

----------------------------------------------------------------------------
(* The store's write operations, each under EveDB.lock *)

\* how often the Fetch Data button is pressed, at most
MaxFetches == 2

\* the EveDB calls of work(), in its order
OpOrder == <<"clear_all", "import_csv_invTypes", "import_csv_mapRegions",
             "import_csv_mapConstellations", "import_csv_mapSolarSystems",
             "build_planets_from_mapDenormalize">>

\* the file each call is given (none for clear_all)
OpFile == <<"", "invTypes.csv", "mapRegions.csv", "mapConstellations.csv",
            "mapSolarSystems.csv", "mapDenormalize.csv">>

\* the order of the DELETE statements of clear_all
ClearOrder == <<"planets", "invTypes", "mapSolarSystems", "mapConstellations", "mapRegions">>

\* the first k DELETEs of clear_all
RECURSIVE Deleted(_, _)
Deleted(d, k) ==
    IF k = 0 THEN d ELSE [Deleted(d, k - 1) EXCEPT ![ClearOrder[k]] = EmptyTable]

\* the table an import call writes, after the whole file
Imported(d, op, rows) ==
    CASE op = 2 -> [d EXCEPT !.invTypes = ImportInvTypes(@, rows)]
      [] op = 3 -> [d EXCEPT !.mapRegions = ImportRegions(@, rows)]
      [] op = 4 -> [d EXCEPT !.mapConstellations = ImportConstellations(@, rows)]
      [] op = 5 -> [d EXCEPT !.mapSolarSystems = ImportSolarSystems(@, rows)]

\* the table an import operation writes
TableOf(d, op) ==
    CASE op = 2 -> d.invTypes
      [] op = 3 -> d.mapRegions
      [] op = 4 -> d.mapConstellations
      [] op = 5 -> d.mapSolarSystems

\* BATCH_SIZE, scaled from the source's 10000 to the files tried here so that
\* an import flushes a full batch before its last, partial one
BATCH_SIZE == 2

\* the test before rows.append in the loop of an import
Accepted(op, r) ==
    CASE op = 2 -> try_int(r.typeID) # NULL
      [] op = 3 -> try_int(r.regionID) # NULL /\ TruthyStr(OrStr(r.regionName, r.name))
      [] op = 4 -> try_int(r.constellationID) # NULL /\ try_int(r.regionID) # NULL
      [] op = 5 -> try_int(r.solarSystemID) # NULL /\ try_int(r.constellationID) # NULL

\* the rows appended to the batch buffer, in file order
RECURSIVE AcceptedRows(_, _)
AcceptedRows(op, rows) ==
    IF rows = <<>> THEN <<>>
    ELSE IF Accepted(op, Head(rows)) THEN <<Head(rows)>> \o AcceptedRows(op, Tail(rows))
    ELSE AcceptedRows(op, Tail(rows))

\* how many full batches the loop of an import flushes
FullBatches(op, rows) == Len(AcceptedRows(op, rows)) \div BATCH_SIZE

\* the source rows an import has written when k full batches are flushed
Flushed(op, rows, k) == SubSeq(AcceptedRows(op, rows), 1, k * BATCH_SIZE)

\* the import call whose outcome a direct caller has in hand: the table as the
\* call found it, the rows it had written when it raised
NoImport == [pre |-> EmptyTable, written |-> 0]

\* con.rollback() that restores nothing
Rollback_keeps_writes(d, s) == d

\* con.rollback(): the connection sees the last committed state again
Rollback(d, s) == s

\* the finally clause restoring synchronous and temp_store only
RestorePragmas_forgets_cache(p, orig) ==
    [p EXCEPT !.synchronous = orig.synchronous, !.temp_store = orig.temp_store]

\* the three PRAGMAs of the finally clause
RestorePragmas(p, orig) ==
    [p EXCEPT !.synchronous = orig.synchronous, !.temp_store = orig.temp_store,
              !.cache_size = orig.cache_size]

\* with self.con  left by an exception: what was written is committed
ExitWithCon_commits(d, s) == d

\* with self.con  left by an exception: the connection rolls back
ExitWithCon(d, s) == Rollback(d, s)

\* with self.lock: the lock is taken only when nobody holds it
CanAcquire(l) == l = "none"

\* work() calling the rebuild right after clear_all, ahead of the imports
Returned_rebuild_first(wr, ok) ==
    IF wr.driver = "caller" THEN [wr EXCEPT !.pc = "returned", !.err = ~ok]
    ELSE IF ~ok THEN [wr EXCEPT !.pc = "finish", !.err = TRUE]
    ELSE IF wr.op = 1 THEN [wr EXCEPT !.pc = "call", !.op = 6]
    ELSE IF wr.op = 6 THEN [wr EXCEPT !.pc = "call", !.op = 2]
    ELSE IF wr.op < 5 THEN [wr EXCEPT !.pc = "call", !.op = @ + 1]
    ELSE [wr EXCEPT !.pc = "finish"]

\* the steps of the running refresh, in the order work() takes them:
\* hist.steps gets an entry for a file fetched and for a store call entered
\* and returned
Step(h, wr, ev) ==
    IF wr.driver = "work" THEN [h EXCEPT !.steps = Append(@, ev)] ELSE h

\* the worker after a call returned (ok) or raised (~ok): work() goes on to its
\* next call or to its except clause; a direct caller has the outcome in hand
Returned(wr, ok) ==
    IF wr.driver = "caller" THEN [wr EXCEPT !.pc = "returned", !.err = ~ok]
    ELSE IF ~ok THEN [wr EXCEPT !.pc = "finish", !.err = TRUE]
    ELSE IF wr.op < Len(OpOrder) THEN [wr EXCEPT !.pc = "call", !.op = @ + 1]
    ELSE [wr EXCEPT !.pc = "finish"]

WorkerInCS == w.pc \in {"cs", "b_loop", "b_finally"}

\* with self.lock, entered by the worker
Acquire ==
    /\ w.pc = "call"
    /\ CanAcquire(lock)
    /\ lock' = "worker"
    /\ w' = [w EXCEPT !.pc = "cs"]
    /\ hist' = Step([hist EXCEPT
                        !.storeCalls = @ + 1,
                        !.imp = IF w.driver = "caller" /\ w.op \in 2..5
                                THEN [pre |-> TableOf(db, w.op), written |-> 0]
                                ELSE @],
                    w, <<"entered", OpOrder[w.op]>>)
    /\ UNCHANGED <<label, result, db, saved, inTxn, pragmas, ui, afterq>>

\* clear_all: five DELETEs and a commit
ClearAll ==
    /\ w.pc = "cs" /\ w.op = 1
    /\ db' = ClearedDb(db)
    /\ saved' = db'
    /\ inTxn' = FALSE
    /\ lock' = "none"
    /\ w' = Returned(w, TRUE)
    /\ hist' = Step(hist, w, <<"returned", OpOrder[w.op]>>)
    /\ UNCHANGED <<label, result, pragmas, ui, afterq>>

\* clear_all raising at its (k+1)th statement: the DELETEs done so far stay in
\* the connection's open transaction, nothing commits or rolls back
ClearFail ==
    /\ w.pc = "cs" /\ w.op = 1
    /\ \E k \in 0..Len(ClearOrder) :
        /\ db' = Deleted(db, k)
        /\ inTxn' = (inTxn \/ k > 0)
    /\ lock' = "none"
    /\ w' = Returned(w, FALSE)
    /\ UNCHANGED <<label, result, saved, pragmas, ui, afterq, hist>>

\* import_csv_*: every batch upserted, then the commit of  with self.con
ImportRun ==
    /\ w.pc = "cs" /\ w.op \in 2..5
    /\ db' = Imported(db, w.op, w.files[OpFile[w.op]])
    /\ saved' = db'
    /\ inTxn' = FALSE
    /\ lock' = "none"
    /\ w' = Returned(w, TRUE)
    /\ hist' = Step([hist EXCEPT !.imp = NoImport], w, <<"returned", OpOrder[w.op]>>)
    /\ UNCHANGED <<label, result, pragmas, ui, afterq>>

\* import_csv_* raising: path.open fails before  with self.con  is entered
\* (nothing changes), or a read or write fails inside it after k full batches
\* were written; with self.con  then rolls back
ImportFail ==
    /\ w.pc = "cs" /\ w.op \in 2..5
    /\ \/ UNCHANGED <<db, inTxn, hist>>
       \/ \E k \in 0..FullBatches(w.op, w.files[OpFile[w.op]]) :
            LET rows == Flushed(w.op, w.files[OpFile[w.op]], k) IN
            /\ db' = ExitWithCon(Imported(db, w.op, rows), saved)
            /\ inTxn' = FALSE
            /\ hist' = IF w.driver = "caller"
                        THEN [hist EXCEPT !.imp.written = Len(rows)] ELSE hist
    /\ lock' = "none"
    /\ w' = Returned(w, FALSE)
    /\ UNCHANGED <<label, result, saved, pragmas, ui, afterq>>

\* the rebuild up to the loop: type_map, the PRAGMAs read and relaxed, commit,
\* BEGIN, the three DROP INDEX
BuildBegin ==
    /\ w.pc = "cs" /\ w.op = 6
    /\ saved' = db
    /\ pragmas' = RelaxedPragmas
    /\ inTxn' = TRUE
    /\ db' = [db EXCEPT !.indices = {}]
    /\ w' = [w EXCEPT !.pc = "b_loop", !.type_map = TypeMap(db.invTypes),
                      !.orig = pragmas, !.rows = <<>>, !.pos = 0, !.inserted = 0,
                      !.err = FALSE]
    /\ hist' = [hist EXCEPT !.bpre = db, !.ppre = pragmas]
    /\ UNCHANGED <<label, result, lock, ui, afterq>>

\* the reader loop from source row pos+1 until the buffer holds a full batch
\* or the file ends: <<rows, pos>>
RECURSIVE Fill(_, _, _, _)
Fill(file, type_map, rows, pos) ==
    IF pos >= Len(file) \/ Len(rows) >= PLANET_BATCH_SIZE THEN <<rows, pos>>
    ELSE LET r == file[pos + 1] IN
         Fill(file, type_map,
              IF RowAccepted(r) THEN Append(rows, PlanetRow(type_map, r)) ELSE rows,
              pos + 1)

\* one full batch read and written inside the loop
BuildBatch ==
    /\ w.pc = "b_loop"
    /\ w.pos < Len(w.files["mapDenormalize.csv"])
    /\ LET f == Fill(w.files["mapDenormalize.csv"], w.type_map, w.rows, w.pos)
           full == Len(f[1]) >= PLANET_BATCH_SIZE
       IN /\ db' = IF full THEN [db EXCEPT !.planets = InsertPlanets(@, f[1])] ELSE db
          /\ w' = [w EXCEPT !.rows = IF full THEN <<>> ELSE f[1],
                            !.pos = f[2],
                            !.inserted = IF full THEN @ + Len(f[1]) ELSE @]
    /\ UNCHANGED <<label, result, saved, inTxn, pragmas, lock, ui, afterq, hist>>

\* after the loop: the last, partial batch, the three CREATE INDEX, the commit
BuildEnd ==
    /\ w.pc = "b_loop"
    /\ w.pos = Len(w.files["mapDenormalize.csv"])
    /\ db' = [db EXCEPT !.planets = InsertPlanets(@, w.rows), !.indices = IndexNames]
    /\ saved' = db'
    /\ inTxn' = FALSE
    /\ w' = [w EXCEPT !.pc = "b_finally", !.rows = <<>>, !.inserted = @ + Len(w.rows)]
    /\ UNCHANGED <<label, result, pragmas, lock, ui, afterq, hist>>

\* an exception anywhere in the try block: except Exception: rollback, raise
BuildFail ==
    /\ w.pc = "b_loop"
    /\ db' = Rollback(db, saved)
    /\ inTxn' = FALSE
    /\ w' = [w EXCEPT !.pc = "b_finally", !.err = TRUE]
    /\ UNCHANGED <<label, result, saved, pragmas, lock, ui, afterq, hist>>

\* the finally clause: commit, the PRAGMAs restored; then the lock is released
BuildFinally ==
    /\ w.pc = "b_finally"
    /\ saved' = db
    /\ inTxn' = FALSE
    /\ pragmas' = RestorePragmas(pragmas, w.orig)
    /\ lock' = "none"
    /\ w' = Returned([w EXCEPT !.rows = <<>>, !.pos = 0, !.type_map = <<>>,
                               !.orig = InitPragmas], ~w.err)
    /\ hist' = IF w.err THEN hist ELSE Step(hist, w, <<"returned", OpOrder[w.op]>>)
    /\ UNCHANGED <<label, result, db, ui, afterq>>

----------------------------------------------------------------------------
(* The refresh worker: work() of fetch_data *)

\* the for loop over DATA_FILES: one file retrieved
Download ==
    /\ w.pc = "download"
    /\ \E c \in DownloadsOf(DATA_FILES[w.n + 1]) :
        w' = [w EXCEPT !.files[DATA_FILES[w.n + 1]] = c,
                       !.n = @ + 1,
                       !.pc = IF w.n + 1 = Len(DATA_FILES) THEN "call" ELSE "download",
                       !.op = 1]
    /\ hist' = Step(hist, w, <<"fetched", DATA_FILES[w.n + 1]>>)
    /\ UNCHANGED <<label, result, db, saved, inTxn, pragmas, lock, ui, afterq>>

\* a failed download caught inside the loop, work() going on to the imports
AfterDownloadFail_goes_on(wr) == [wr EXCEPT !.pc = "call", !.op = 1]

\* an exception of maybe_download_csv leaves the try block of work()
AfterDownloadFail(wr) == [wr EXCEPT !.pc = "finish", !.err = TRUE]

\* maybe_download_csv raising: a transport error on the .bz2 request, or an
\* HTTP error on it and any error on the plain request
DownloadFail ==
    /\ w.pc = "download"
    /\ w' = AfterDownloadFail(w)
    /\ hist' = [hist EXCEPT !.dlFailed = TRUE]
    /\ UNCHANGED <<label, result, db, saved, inTxn, pragmas, lock, ui, afterq>>

\* work() posting enable_and_refresh at the end of its try body
Posted_in_try(q, err) ==
    IF err THEN Append(q, "showerror") ELSE Append(q, "enable_and_refresh")

\* the callbacks work() posts on its way out: the except clause posts
\* messagebox.showerror, the finally clause posts enable_and_refresh
Posted(q, err) ==
    Append(IF err THEN Append(q, "showerror") ELSE q, "enable_and_refresh")

\* the except and finally clauses of work(): the status text, then the
\* callbacks handed to root.after; the thread ends
WorkerFinish ==
    /\ w.pc = "finish"
    /\ afterq' = Posted(afterq, w.err)
    /\ w' = [w EXCEPT !.pc = "idle"]
    /\ hist' = [hist EXCEPT !.active = @ - 1,
                            !.outcome = IF w.err THEN "error" ELSE "done"]
    /\ UNCHANGED <<label, result, db, saved, inTxn, pragmas, lock, ui>>

----------------------------------------------------------------------------
(* The Tk main loop: one handler at a time; a handler that queries the store *)
(* waits for EveDB.lock.  A handler's queries are taken as one locked read:  *)
(* each further query of the handler repeats the same acquire and release.   *)

\* refresh_counts: the four totals shown in the sidebar
refresh_counts(d) ==
    [r |-> total_regions(d), c |-> total_constellations(d),
     s |-> total_systems(d), p |-> total_planets(d)]

\* fetch_data leaving the Fetch Data button enabled
FetchWidgets_button_stays(u) ==
    [u EXCEPT !.regions = {}, !.sidebar = "disabled"]

\* fetch_data: the region list emptied, the button and the sidebar disabled
FetchWidgets(u) ==
    [u EXCEPT !.regions = {}, !.fetch_btn = "disabled", !.sidebar = "disabled"]

\* a query method that does not take the lock
QueryCanAcquire_unlocked(l) == TRUE

\* with self.lock  of the query methods
QueryCanAcquire(l) == CanAcquire(l)

\* the worker as threading.Thread(target=work).start() leaves it
StartedWorker(wr) ==
    [wr EXCEPT !.pc = "download", !.n = 0, !.op = 1, !.files = NoFiles,
               !.err = FALSE, !.inserted = 0]

\* the Fetch Data button: fetch_data.  A thread started while another is
\* alive is counted in hist.active; its steps are not followed.
ClickFetch ==
    /\ ui.pc = "idle"
    /\ ui.fetch_btn = "normal"
    /\ hist.fetches < MaxFetches
    /\ ui' = FetchWidgets(ui)
    /\ w' = IF hist.active = 0 THEN StartedWorker(w) ELSE w
    /\ hist' = [hist EXCEPT !.active = @ + 1, !.fetches = @ + 1, !.rpre = db,
                            !.storeCalls = 0, !.dlFailed = FALSE, !.outcome = "running",
                            !.steps = IF hist.active = 0 THEN <<>> ELSE @]
    /\ UNCHANGED <<label, result, db, saved, inTxn, pragmas, lock, afterq>>

\* the main loop runs a callback posted with root.after: enable_and_refresh
\* enables the controls, then refresh_regions and refresh_counts query
RunAfter ==
    /\ ui.pc = "idle"
    /\ afterq # <<>>
    /\ Head(afterq) = "enable_and_refresh"
    /\ afterq' = Tail(afterq)
    /\ ui' = [ui EXCEPT !.fetch_btn = "normal", !.sidebar = "normal",
                        !.pc = "wait", !.handler = "enable_and_refresh"]
    /\ UNCHANGED <<label, result, db, saved, inTxn, pragmas, lock, w, hist>>

\* the main loop runs the posted messagebox.showerror: the Fetch Error
\* dialog is shown and the user closes it
ShowError ==
    /\ ui.pc = "idle"
    /\ afterq # <<>>
    /\ Head(afterq) = "showerror"
    /\ afterq' = Tail(afterq)
    /\ UNCHANGED <<label, result, db, saved, inTxn, pragmas, lock, w, ui, hist>>

\* a region chosen in the list: _on_region_list_select, populate_region
SelectRegion ==
    /\ ui.pc = "idle"
    /\ ui.sidebar = "normal"
    /\ \E r \in ui.regions :
        ui' = [ui EXCEPT !.pc = "wait", !.handler = "populate_region", !.arg = r]
    /\ UNCHANGED <<label, result, db, saved, inTxn, pragmas, lock, w, afterq, hist>>

\* a breakdown checkbox: _on_toggle_breakdowns returns at once on an empty tree
\* and queries the counts otherwise
ToggleBreakdowns ==
    /\ ui.pc = "idle"
    /\ ui' = [ui EXCEPT !.show = ~@,
                        !.pc = IF ui.tree = NULL THEN "idle" ELSE "wait",
                        !.handler = IF ui.tree = NULL THEN @ ELSE "_on_toggle_breakdowns"]
    /\ UNCHANGED <<label, result, db, saved, inTxn, pragmas, lock, w, afterq, hist>>

\* a constellation node opened: _on_open replaces its placeholder by _load_systems
OpenNode ==
    /\ ui.pc = "idle"
    /\ ui.nodes # {}
    /\ \E c \in ui.nodes :
        ui' = [ui EXCEPT !.pc = "wait", !.handler = "_on_open", !.arg = c]
    /\ UNCHANGED <<label, result, db, saved, inTxn, pragmas, lock, w, afterq, hist>>

\* the Clear button: clear_view
ClearView ==
    /\ ui.pc = "idle"
    /\ ui.tree # NULL
    /\ ui' = [ui EXCEPT !.tree = NULL, !.nodes = {}]
    /\ UNCHANGED <<label, result, db, saved, inTxn, pragmas, lock, w, afterq, hist>>

\* with self.lock, entered by a query method on the main thread
QueryAcquire ==
    /\ ui.pc = "wait"
    /\ QueryCanAcquire(lock)
    /\ lock' = "ui"
    /\ ui' = [ui EXCEPT !.pc = "read"]
    /\ UNCHANGED <<label, result, db, saved, inTxn, pragmas, w, afterq, hist>>

\* the query's rows taken and the lock released; the handler shows them
QueryRead ==
    /\ ui.pc = "read"
    /\ lock' = "none"
    /\ ui' = LET u == [ui EXCEPT !.pc = "idle", !.handler = "none", !.arg = NULL] IN
             CASE ui.handler = "enable_and_refresh" ->
                    [u EXCEPT !.regions = list_regions(db),
                              !.counts = refresh_counts(db)]
               [] ui.handler = "populate_region" ->
                    [u EXCEPT !.tree = ui.arg,
                              !.nodes = constellations_in_region(db, ui.arg)]
               [] ui.handler = "_on_open" ->
                    [u EXCEPT !.nodes = @ \ {ui.arg}]
               [] OTHER -> u
    /\ hist' = [hist EXCEPT !.dirtyRead = @ \/ w.pc = "b_loop" \/ db.indices # IndexNames]
    /\ UNCHANGED <<label, result, db, saved, inTxn, pragmas, w, afterq>>

UiInCS == ui.pc = "read"

----------------------------------------------------------------------------
(* The catalog of a whole refresh, and the initial states *)

\* the planets table after a rebuild that ran to its end
Rebuilt(planets, type_map, file) ==
    InsertPlanets(planets,
        LET RECURSIVE A(_)
            A(i) == IF i > Len(file) THEN <<>>
                    ELSE IF RowAccepted(file[i])
                         THEN <<PlanetRow(type_map, file[i])>> \o A(i + 1)
                         ELSE A(i + 1)
        IN A(1))

\* the store after clear_all, the four imports and the rebuild of these files
CatalogOf(files) ==
    LET t == ImportInvTypes(EmptyTable, files["invTypes.csv"]) IN
    [invTypes          |-> t,
     mapRegions        |-> ImportRegions(EmptyTable, files["mapRegions.csv"]),
     mapConstellations |-> ImportConstellations(EmptyTable, files["mapConstellations.csv"]),
     mapSolarSystems   |-> ImportSolarSystems(EmptyTable, files["mapSolarSystems.csv"]),
     planets           |-> Rebuilt(EmptyTable, TypeMap(t), files["mapDenormalize.csv"]),
     indices           |-> IndexNames]

\* the files of an earlier refresh, whose catalog the store file may hold
OldFiles ==
    [NoFiles EXCEPT
        !["invTypes.csv"] = << TRow("1", "7", tLava), TRow("2", "7", tBarren) >>,
        !["mapRegions.csv"] = << RRow("1", nForge), RRow("2", nNoName) >>,
        !["mapConstellations.csv"] = << CRow("1", "1", nForge), CRow("2", "2", nDomain) >>,
        !["mapSolarSystems.csv"] = << SRow("1", "1", nForge), SRow("2", "2", nDomain) >>,
        !["mapDenormalize.csv"] = << DRow("7", "1", "1", "1", "1", "1", "1", nP1),
                                     DRow("7", "2", "2", "2", "2", "2", "1", nP2) >>]

IdleWorker(driver) ==
    [pc |-> "idle", op |-> 1, n |-> 0, files |-> NoFiles, type_map |-> <<>>,
     orig |-> InitPragmas, rows |-> <<>>, pos |-> 0, inserted |-> 0, err |-> FALSE,
     driver |-> driver]

\* App.__init__: the widgets enabled, an empty tree, refresh_regions and
\* refresh_counts done
InitUi(d) ==
    [pc |-> "idle", handler |-> "none", arg |-> NULL, fetch_btn |-> "normal",
     sidebar |-> "normal", regions |-> list_regions(d), tree |-> NULL, nodes |-> {},
     show |-> FALSE, consts |-> <<>>, systems |-> <<>>, cold |-> FALSE,
     counts |-> refresh_counts(d)]

InitHist(d) ==
    [rpre |-> d, bpre |-> d, ppre |-> InitPragmas, active |-> 0, fetches |-> 0,
     storeCalls |-> 0, dlFailed |-> FALSE, outcome |-> "none", dirtyRead |-> FALSE,
     calls |-> 0, log |-> <<>>, last |-> [ok |-> FALSE, planets |-> EmptyTable],
     steps |-> <<>>, imp |-> NoImport]

\* EveDB(DB_PATH) on a new file or on the file an earlier run left, then App
Init ==
    /\ label = NoneStr /\ result = "pending"
    /\ db \in {EmptyDb, CatalogOf(OldFiles)}
    /\ saved = db
    /\ inTxn = FALSE
    /\ pragmas = InitPragmas
    /\ lock = "none"
    /\ w = IdleWorker("work")
    /\ ui = InitUi(db)
    /\ afterq = <<>>
    /\ hist = InitHist(db)

Next ==
    \/ ClickFetch \/ RunAfter \/ ShowError \/ SelectRegion \/ ToggleBreakdowns
    \/ OpenNode \/ ClearView \/ QueryAcquire \/ QueryRead
    \/ Download \/ DownloadFail \/ WorkerFinish
    \/ Acquire \/ ClearAll \/ ClearFail \/ ImportRun \/ ImportFail
    \/ BuildBegin \/ BuildBatch \/ BuildEnd \/ BuildFail \/ BuildFinally

Spec == Init /\ [][Next]_vars

\* a step of the worker thread that needs no lock: a download, a store
\* method running to its return or to its exception, the way out of work()
WorkerStep ==
    \/ Download \/ DownloadFail \/ WorkerFinish
    \/ ClearAll \/ ClearFail \/ ImportRun \/ ImportFail
    \/ BuildBegin \/ BuildFail \/ BuildEnd \/ BuildBatch \/ BuildFinally

\* The schedule of the running program.  The worker is a thread of its own
\* (threading.Thread(target=work).start()), so the system scheduler keeps
\* running it; requests.get has a timeout, so a download ends.  A thread
\* blocked in  with self.lock  gets the lock in the end although the other
\* thread takes and releases it again and again.  root.mainloop() runs every
\* callback posted with root.after once the handler before it has returned,
\* and the user closes the error dialog.
Fairness ==
    /\ WF_vars(WorkerStep)
    /\ SF_vars(Acquire)
    /\ SF_vars(RunAfter)
    /\ SF_vars(ShowError)
    /\ SF_vars(QueryAcquire)
    /\ WF_vars(QueryRead)

SpecLive == Init /\ [][Next]_vars /\ Fairness

----------------------------------------------------------------------------
(* The store driven directly: any sequence of clear_all, imports and rebuilds *)

\* how many operations the direct caller invokes, at most
MaxCalls == 2

\* a caller invokes one EveDB write operation on a file of its choice
Call ==
    /\ w.pc = "idle"
    /\ hist.calls < MaxCalls
    /\ \E op \in 1..Len(OpOrder) : \E c \in FilesOf(OpFile[op]) :
        w' = [w EXCEPT !.pc = "call", !.op = op, !.err = FALSE, !.inserted = 0,
                       !.files = IF op = 1 THEN NoFiles
                                 ELSE [NoFiles EXCEPT ![OpFile[op]] = c]]
    /\ hist' = [hist EXCEPT !.calls = @ + 1]
    /\ UNCHANGED <<label, result, db, saved, inTxn, pragmas, lock, ui, afterq>>

\* the caller goes on; the locals of the finished call are gone
Resume ==
    /\ w.pc = "returned"
    /\ w' = IdleWorker("caller")
    /\ hist' = [hist EXCEPT !.bpre = EmptyDb, !.imp = NoImport]
    /\ UNCHANGED <<label, result, db, saved, inTxn, pragmas, lock, ui, afterq>>

InitStore ==
    /\ label = NoneStr /\ result = "pending"
    /\ db \in {EmptyDb, CatalogOf(OldFiles)}
    /\ saved = db
    /\ inTxn = FALSE
    /\ pragmas = InitPragmas
    /\ lock = "none"
    /\ w = IdleWorker("caller")
    /\ ui = InitUi(db)
    /\ afterq = <<>>
    /\ hist = [InitHist(db) EXCEPT !.bpre = EmptyDb, !.rpre = EmptyDb]

NextStore ==
    \/ Call \/ Resume
    \/ Acquire \/ ClearAll \/ ClearFail \/ ImportRun \/ ImportFail
    \/ BuildBegin \/ BuildBatch \/ BuildEnd \/ BuildFail \/ BuildFinally

SpecStore == InitStore /\ [][NextStore]_vars

----------------------------------------------------------------------------
(* One write operation run on a file and then run again *)

\* mapRegions.csv: two rows of one regionID, a placeholder name
RegionRows == {RRow("1", nForge), RRow("1", nDomain), RRow("2", nNoName)}

\* the region files run: the rows above in any order, none twice; files with a
\* row that is not accepted (no regionID, no name)
RegionRunFiles ==
    {f \in UNION {[1..n -> RegionRows] : n \in 0..MaxRows} :
        \A i, j \in 1..Len(f) : f[i] = f[j] => i = j}
    \cup { << RRow("", nForge), RRow("1", nForge) >>,
           << RRow("3", <<>>), RRow("3", NoneStr), RRow("2", nDomain) >> }

\* mapDenormalize.csv: the rows of DenormRows, an itemID of 0, no itemID
RunDenormRows ==
    DenormRows \cup { DRow("7", "0", "1", "1", "1", "1", "3", nP1),
                      DRow("7", "", "1", "1", "1", "1", "3", nP1) }

RunDenormFiles ==
    {f \in UNION {[1..n -> RunDenormRows] : n \in 0..MaxRows} :
        \A i, j \in 1..Len(f) : f[i] = f[j] => i = j}

\* the files an operation is run on
RunFilesOf(op) ==
    CASE op = 3 -> RegionRunFiles
      [] op = 6 -> RunDenormFiles
      [] OTHER  -> FilesOf(OpFile[op])

\* the operation is called again: a rebuild on the same file, an import on any
\* file.  hist.log keeps the files whose import succeeded, hist.last the
\* outcome of the rebuild that just returned.
CallAgain ==
    /\ w.pc = "returned"
    /\ hist.calls < MaxCalls
    /\ \E c \in (IF w.op = 6 THEN {w.files[OpFile[w.op]]} ELSE RunFilesOf(w.op)) :
        w' = [IdleWorker("caller") EXCEPT !.pc = "call", !.op = w.op,
                                          !.files = [NoFiles EXCEPT ![OpFile[w.op]] = c]]
    /\ hist' = [hist EXCEPT
                    !.calls = @ + 1,
                    !.bpre = EmptyDb,
                    !.imp = NoImport,
                    !.log = IF w.op # 6 /\ ~w.err THEN Append(@, w.files[OpFile[w.op]])
                                                  ELSE @,
                    !.last = IF w.op = 6 THEN [ok |-> ~w.err, planets |-> db.planets]
                                         ELSE @]
    /\ UNCHANGED <<label, result, db, saved, inTxn, pragmas, lock, ui, afterq>>

\* a store file, new or left by an earlier refresh, and the first call
InitRun ==
    /\ label = NoneStr /\ result = "pending"
    /\ db \in {EmptyDb, CatalogOf(OldFiles)}
    /\ saved = db
    /\ inTxn = FALSE
    /\ pragmas = InitPragmas
    /\ lock = "none"
    /\ \E op \in 2..Len(OpOrder) : \E c \in RunFilesOf(op) :
        /\ w = [IdleWorker("caller") EXCEPT !.pc = "call", !.op = op,
                                            !.files = [NoFiles EXCEPT ![OpFile[op]] = c]]
        /\ hist = [InitHist(db) EXCEPT
                      !.bpre = EmptyDb, !.rpre = EmptyDb, !.calls = 1,
                      !.log = IF op # 6 /\ db # EmptyDb THEN <<OldFiles[OpFile[op]]>>
                                                        ELSE <<>>]
    /\ ui = InitUi(db)
    /\ afterq = <<>>

NextRun ==
    \/ CallAgain
    \/ Acquire \/ ImportRun \/ ImportFail
    \/ BuildBegin \/ BuildBatch \/ BuildEnd \/ BuildFail \/ BuildFinally

SpecRun == InitRun /\ [][NextRun]_vars

----------------------------------------------------------------------------
(* The query methods on a store file of any contents the schema allows *)

\* rows per table in the stores queried, at most
MaxBodies == 2

\* an id no table of the stores queried holds
MissingId == 10000002

nBlank  == <<" ", " ">>
nNONAME == <<"N","O"," ","N","A","M","E">>

\* a planets row of system, constellation and region  place
Body(i, cat, orb, place) ==
    [itemID |-> i, typeID |-> 1, groupID |-> PLANET_GROUP, category |-> cat,
     typeName |-> tLava, itemName |-> nP1, solarSystemID |-> place,
     constellationID |-> place, regionID |-> place, orbitalID |-> orb,
     radius_km |-> 6000]

Places == {1, 2}

\* the category column: NULL, the known values, and unknown text sorting
\* before and after 'Barren'
CategoryOpts == {NoneRaw, "Asteroid", "Barren", "Lava", "Unknown"} \X {1} \X Places

\* the orbitalID column: NULL or a slot
OrbitalOpts == {"Lava"} \X {NULL, 1, 2} \X Places

PlanetsTables(opts) ==
    UNION {{[i \in S |-> Body(i, f[i][1], f[i][2], f[i][3])] : f \in [S -> opts]} :
            S \in SUBSET (1..MaxBodies)}

\* the name columns: NULL, blank, the placeholder, a name
NameOpts == {NoneStr, nBlank, nNONAME, nNoName, nForge}

NameTables == UNION {[S -> NameOpts] : S \in SUBSET (1..MaxBodies)}

\* a store whose three reference tables carry the names  t, every
\* constellation in region 1 and every system in constellation 1
NamedDb(t) ==
    [EmptyDb EXCEPT
        !.mapRegions = [k \in DOMAIN t |-> [regionName |-> t[k]]],
        !.mapConstellations =
            [k \in DOMAIN t |-> [regionID |-> 1, constellationName |-> t[k]]],
        !.mapSolarSystems =
            [k \in DOMAIN t |-> [constellationID |-> 1, solarSystemName |-> t[k]]]]

QueryStores ==
    {[EmptyDb EXCEPT !.planets = t] :
        t \in PlanetsTables(CategoryOpts) \cup PlanetsTables(OrbitalOpts)}
    \cup {NamedDb(t) : t \in NameTables}

QueryIds == (1..MaxBodies) \cup {MissingId}

NoResult == [op |-> "none", arg |-> NULL, value |-> NULL]

\* a query method returning  value  to its caller
Answer(op, arg, value) ==
    /\ result' = [op |-> op, arg |-> arg, value |-> value]
    /\ UNCHANGED <<label, db, saved, inTxn, pragmas, lock, w, ui, afterq, hist>>

CallListRegions == Answer("list_regions", NULL, list_regions(db))

CallConstellationsInRegion ==
    \E a \in QueryIds : Answer("constellations_in_region", a, constellations_in_region(db, a))

CallSystemsInConstellation ==
    \E a \in QueryIds : Answer("systems_in_constellation", a, systems_in_constellation(db, a))

CallRegionName == \E a \in QueryIds : Answer("region_name", a, region_name(db, a))

CallConstellationName ==
    \E a \in QueryIds : Answer("constellation_name", a, constellation_name(db, a))

CallSystemName == \E a \in QueryIds : Answer("system_name", a, system_name(db, a))

CallCountsSystem ==
    \E a \in QueryIds : Answer("counts_by_category_system", a, counts_by_category_system(db, a))

CallCountsRegion ==
    \E a \in QueryIds : Answer("counts_by_category_region", a, counts_by_category_region(db, a))

CallCountsConstellation ==
    \E a \in QueryIds :
        Answer("counts_by_category_constellation", a, counts_by_category_constellation(db, a))

CallPlanetsInSystem ==
    \E a \in QueryIds : Answer("planets_in_system", a, planets_in_system(db, a))

CallTotalRegions == Answer("total_regions", NULL, total_regions(db))

CallTotalConstellations == Answer("total_constellations", NULL, total_constellations(db))

CallTotalSystems == Answer("total_systems", NULL, total_systems(db))

InitQuery ==
    /\ label = NoneStr /\ result = NoResult
    /\ db \in QueryStores
    /\ saved = db
    /\ inTxn = FALSE
    /\ pragmas = InitPragmas
    /\ lock = "none"
    /\ w = IdleWorker("caller")
    /\ ui = InitUi(EmptyDb)
    /\ afterq = <<>>
    /\ hist = InitHist(EmptyDb)

NextQuery ==
    \/ CallListRegions \/ CallConstellationsInRegion \/ CallSystemsInConstellation
    \/ CallRegionName \/ CallConstellationName \/ CallSystemName
    \/ CallCountsSystem \/ CallCountsRegion \/ CallCountsConstellation
    \/ CallPlanetsInSystem
    \/ CallTotalRegions \/ CallTotalConstellations \/ CallTotalSystems

SpecQuery == InitQuery /\ [][NextQuery]_vars

----------------------------------------------------------------------------
(* The tree of one region view: nodes opened, collapsed and shift-clicked *)

\* how often a node is seen expanded before the count stops
MaxSeen == 2

\* the child "..." a node gets before its children are loaded; it has no id
PLACEHOLDER == 0

\* the ids of a listing in the order of the tree
RECURSIVE Listed(_)
Listed(ids) ==
    IF ids = {} THEN <<>>
    ELSE LET m == CHOOSE x \in ids : \A y \in ids : x <= y
         IN <<m>> \o Listed(ids \ {m})

\* children and "placeholder" in tags of children[0], without the tag test
NeedsLoad_any_children(kids) == kids # <<>>

\* children and "placeholder" in tags of children[0]
NeedsLoad(kids) == kids # <<>> /\ kids[1] = PLACEHOLDER

\* a node as _load_constellations and _load_systems insert it: closed, with a
\* placeholder child.  q counts the queries made for the node's children,
\* x how often the node was expanded (up to MaxSeen)
NewNode(parent) ==
    [parent |-> parent, open |-> FALSE, kids |-> <<PLACEHOLDER>>, q |-> 0, x |-> 0]

Seen(n) == IF n < MaxSeen THEN n + 1 ELSE n

\* the placeholder deleted and _load_systems: the systems of the constellation
\* become its children
LoadSystems(u, d, c) ==
    LET ids == systems_in_constellation(d, c) IN
    [u EXCEPT !.consts[c].kids = Listed(ids),
              !.consts[c].q = @ + 1,
              !.systems = [s \in (DOMAIN @) \cup ids |->
                              IF s \in ids THEN NewNode(c) ELSE @[s]]]

\* the placeholder deleted and _load_planets: the bodies of the system become
\* its children
LoadPlanets(u, d, s) ==
    LET ps == planets_in_system(d, s) IN
    [u EXCEPT !.systems[s].kids = [i \in 1..Len(ps) |-> ps[i].itemID],
              !.systems[s].q = @ + 1]

\* _expand_item and the branches of _on_open
ExpandConst(u, d, c) == IF NeedsLoad(u.consts[c].kids) THEN LoadSystems(u, d, c) ELSE u

ExpandSystem(u, d, s) == IF NeedsLoad(u.systems[s].kids) THEN LoadPlanets(u, d, s) ELSE u

OpenConst(u, c) == [u EXCEPT !.consts[c].open = TRUE, !.consts[c].x = Seen(@)]

OpenSystem(u, s) == [u EXCEPT !.systems[s].open = TRUE, !.systems[s].x = Seen(@)]

SystemsOf(u, c) == {s \in DOMAIN u.systems : u.systems[s].parent = c}

\* for sys_item in children: _expand_item(sys_item), open=True
RECURSIVE ExpandSystemsIn(_, _, _)
ExpandSystemsIn(u, d, ids) ==
    IF ids = {} THEN u
    ELSE LET m == CHOOSE x \in ids : \A y \in ids : x <= y
         IN ExpandSystemsIn(OpenSystem(ExpandSystem(u, d, m), m), d, ids \ {m})

\* for const_item in children: open=True, the systems loaded if need be
RECURSIVE ExpandConstsIn(_, _, _)
ExpandConstsIn(u, d, ids) ==
    IF ids = {} THEN u
    ELSE LET m == CHOOSE x \in ids : \A y \in ids : x <= y
         IN ExpandConstsIn(ExpandConst(OpenConst(u, m), d, m), d, ids \ {m})

CloseSystems(u, ss) ==
    [u EXCEPT !.systems = [s \in DOMAIN @ |-> IF s \in ss THEN [@[s] EXCEPT !.open = FALSE]
                                                          ELSE @[s]]]

\* _expand_all_systems_in_constellation
ExpandAllSystems(u, d, c) ==
    ExpandSystemsIn([u EXCEPT !.consts[c].open = TRUE], d, SystemsOf(u, c))

\* _expand_all_constellation
ExpandAllConstellation(u, d, c) ==
    LET v == ExpandConst(OpenConst(u, c), d, c)
    IN ExpandSystemsIn(v, d, SystemsOf(v, c))

\* _collapse_all_constellation, _collapse_systems_keep_constellation_open
CollapseSystems(u, c) ==
    [CloseSystems(u, SystemsOf(u, c)) EXCEPT !.consts[c].open = TRUE]

\* _expand_all_region
ExpandAllRegion(u, d) ==
    ExpandConstsIn(u, d, DOMAIN u.consts)

\* _collapse_all_region
CollapseAllRegion(u) ==
    [CloseSystems(u, DOMAIN u.systems) EXCEPT
        !.consts = [c \in DOMAIN @ |-> [@[c] EXCEPT !.open = FALSE]]]

\* a handler of the tree ran: ui.cold notes a query made for a node that the
\* handler does not leave expanded
Handled(v) ==
    /\ ui' = [v EXCEPT !.cold =
                @ \/ (\E c \in DOMAIN v.consts :
                        /\ v.consts[c].q > (IF c \in DOMAIN ui.consts
                                            THEN ui.consts[c].q ELSE 0)
                        /\ ~v.consts[c].open)
                  \/ (\E s \in DOMAIN v.systems :
                        /\ v.systems[s].q > (IF s \in DOMAIN ui.systems
                                             THEN ui.systems[s].q ELSE 0)
                        /\ ~v.systems[s].open)]
    /\ UNCHANGED <<label, result, db, saved, inTxn, pragmas, lock, w, afterq, hist>>

\* a region chosen in the list: populate_region and _load_constellations
TreePopulate ==
    \E r \in ui.regions :
        Handled([ui EXCEPT !.tree = r,
                           !.consts = [c \in constellations_in_region(db, r) |->
                                          NewNode(r)],
                           !.systems = <<>>,
                           !.cold = FALSE])

\* <<TreeviewOpen>> on a constellation: _on_open, then the node is open
TreeOpenConst ==
    \E c \in DOMAIN ui.consts : Handled(OpenConst(ExpandConst(ui, db, c), c))

\* <<TreeviewOpen>> on a system
TreeOpenSystem ==
    \E s \in DOMAIN ui.systems : Handled(OpenSystem(ExpandSystem(ui, db, s), s))

\* a node collapsed by the user: no handler is bound
TreeClose ==
    \/ \E c \in DOMAIN ui.consts :
          ui.consts[c].open /\ Handled([ui EXCEPT !.consts[c].open = FALSE])
    \/ \E s \in DOMAIN ui.systems :
          ui.systems[s].open /\ Handled([ui EXCEPT !.systems[s].open = FALSE])

\* _on_click with Shift held, on the region row
ShiftClickRegion ==
    /\ ui.tree # NULL
    /\ LET any_open == \/ \E c \in DOMAIN ui.consts : ui.consts[c].open
                        \/ \E s \in DOMAIN ui.systems : ui.systems[s].open
       IN Handled(IF any_open THEN CollapseAllRegion(ui) ELSE ExpandAllRegion(ui, db))

\* _on_click with Shift held, on a constellation row
ShiftClickConst ==
    \E c \in DOMAIN ui.consts :
        LET any_open == \E s \in SystemsOf(ui, c) : ui.systems[s].open
        IN Handled(IF any_open THEN CollapseSystems(ui, c)
                               ELSE ExpandAllConstellation(ui, db, c))

\* _on_click with Shift held, on a system row
ShiftClickSystem ==
    \E s \in DOMAIN ui.systems :
        LET c == ui.systems[s].parent
            any_open == \E t \in SystemsOf(ui, c) : ui.systems[t].open
        IN Handled(IF any_open THEN CollapseSystems(ui, c)
                               ELSE ExpandAllSystems(ui, db, c))

\* the files of the catalog viewed: a constellation without systems, a system
\* without bodies
TreeFiles ==
    [NoFiles EXCEPT
        !["invTypes.csv"] = << TRow("1", "7", tLava), TRow("2", "7", tBarren) >>,
        !["mapRegions.csv"] = << RRow("1", nForge), RRow("2", nDomain) >>,
        !["mapConstellations.csv"] =
            << CRow("1", "1", nForge), CRow("2", "1", nDomain), CRow("3", "2", nForge) >>,
        !["mapSolarSystems.csv"] =
            << SRow("1", "1", nForge), SRow("2", "1", nDomain), SRow("3", "3", nForge) >>,
        !["mapDenormalize.csv"] = << DRow("7", "1", "1", "1", "1", "1", "1", nP1),
                                     DRow("7", "2", "2", "1", "1", "1", "2", nP2),
                                     DRow("7", "3", "1", "3", "3", "2", "1", nP1) >>]

InitTree ==
    /\ label = NoneStr /\ result = "pending"
    /\ db = CatalogOf(TreeFiles)
    /\ saved = db
    /\ inTxn = FALSE
    /\ pragmas = InitPragmas
    /\ lock = "none"
    /\ w = IdleWorker("work")
    /\ ui = InitUi(db)
    /\ afterq = <<>>
    /\ hist = InitHist(db)

NextTree ==
    \/ TreePopulate \/ TreeOpenConst \/ TreeOpenSystem \/ TreeClose
    \/ ShiftClickRegion \/ ShiftClickConst \/ ShiftClickSystem

SpecTree == InitTree /\ [][NextTree]_vars

----------------------------------------------------------------------------
(* The classifier on its own: every label built from a few words *)

MaxWords == 3

sp == <<" ">>
Words == {
    <<"T","e","m","p","e","r","a","t","e">>,
    <<"S","e","r","v","I","C","E","s">>,
    <<"g","a","s">>,
    <<"O","c","e","a","n","i","c">>,
    <<"L","A","V","A">>,
    <<"P","l","a","s","m","a">>,
    <<"S","t","o","r","m">>,
    <<"S","h","a","t","t","e","r","e","d">>,
    <<"S","c","o","r","c","h","e","d">>,
    <<"B","a","r","r","e","n">>,
    <<"S","u","n">>,
    sp }

RECURSIVE Concat(_)
Concat(ws) == IF ws = <<>> THEN <<>> ELSE Head(ws) \o Concat(Tail(ws))

WordSeqs == UNION {[1..n -> Words] : n \in 0..MaxWords}

\* the arguments tried: None, and every concatenation of at most MaxWords words
Labels == {NoneStr} \cup {Concat(ws) : ws \in WordSeqs}

\* the rules in the order the source tests them
Rules == <<
    [kw |-> kwTemperate, cat |-> "Temperate"],
    [kw |-> kwIce,       cat |-> "Ice"],
    [kw |-> kwGas,       cat |-> "Gas"],
    [kw |-> kwOceanic,   cat |-> "Oceanic"],
    [kw |-> kwLava,      cat |-> "Lava"],
    [kw |-> kwPlasma,    cat |-> "Plasma"],
    [kw |-> kwStorm,     cat |-> "Storm"],
    [kw |-> kwShattered, cat |-> "Shattered"],
    [kw |-> kwScorched,  cat |-> "Scorched Barren"],
    [kw |-> kwBarren,    cat |-> "Barren"] >>

\* the indices of the rules whose substring occurs in the lower-cased label
Matching(type_name) ==
    {i \in 1..Len(Rules) : Contains(Lower(OrEmpty(type_name)), Rules[i].kw)}

HasBoth(type_name) ==
    /\ Contains(Lower(OrEmpty(type_name)), kwScorched)
    /\ Contains(Lower(OrEmpty(type_name)), kwBarren)

Classify ==
    /\ result = "pending"
    /\ result' = categorize_type(label)
    /\ UNCHANGED <<label, db, saved, inTxn, pragmas, lock, w, ui, afterq, hist>>

InitClassify ==
    /\ label \in Labels
    /\ result = "pending"
    /\ db = <<>> /\ saved = <<>> /\ inTxn = FALSE /\ pragmas = <<>> /\ lock = "none"
    /\ w = <<>> /\ ui = <<>> /\ afterq = <<>> /\ hist = <<>>

NextClassify == Classify

SpecClassify == InitClassify /\ [][NextClassify]_vars

\* C8 as stated: every label that contains both "scorched" and "barren"
\* (case-insensitively) is classified Scorched Barren.
C8_AsStated ==
    (result # "pending" /\ HasBoth(label)) => result = "Scorched Barren"

\* C8 amended: a label that contains both "scorched" and "barren" is never
\* classified Barren, and it is classified Scorched Barren whenever it
\* contains none of the eight substrings tested before "scorched".
C8_ScorchedBeforeBarren ==
    (result # "pending" /\ HasBoth(label)) =>
        /\ result # "Barren"
        /\ (\A i \in Matching(label) : i >= 9) => result = "Scorched Barren"

C8_Witness ==
    /\ result = "Scorched Barren"
    /\ HasBoth(label)
    /\ Len(label) > Len(kwScorched) + Len(kwBarren)

\* C9: the result is the category of the first rule, in the order temperate,
\* ice, gas, oceanic, lava, plasma, storm, shattered, scorched, barren, whose
\* substring occurs in the lower-cased label (None read as ""), it is Barren
\* when no rule matches, and it is always one of the ten categories.
C9_FirstMatchingRule ==
    result # "pending" =>
        /\ result \in PlanetTypeSet
        /\ IF Matching(label) = {}
           THEN result = "Barren"
           ELSE \E i \in Matching(label) :
                    /\ \A j \in Matching(label) : i <= j
                    /\ result = Rules[i].cat

C9_Witness ==
    /\ result = "Plasma"
    /\ {6, 7} \subseteq Matching(label)


----------------------------------------------------------------------------
(* Properties of the store and of the refresh *)

\* C1: when the rebuild fails after batches were written, the planets table
\* after the rollback, in the connection and as committed, is exactly the
\* table the rebuild found on entry.
C1_RollbackRestoresPlanets ==
    (w.pc \in {"b_finally", "returned"} /\ w.op = 6 /\ w.err) =>
        /\ db.planets = hist.bpre.planets
        /\ saved.planets = hist.bpre.planets
        /\ db.indices = hist.bpre.indices

C1_Witness ==
    /\ w.pc = "returned" /\ w.op = 6 /\ w.err
    /\ w.inserted > 0
    /\ hist.bpre.planets # EmptyTable

\* C2 as stated: once a refresh has ended in an error, the store holds the
\* whole catalog it held when the refresh started, or the whole catalog of
\* the files just fetched.
C2_NoPartialRebuild ==
    (hist.outcome = "error" /\ w.pc = "idle") =>
        \/ db = hist.rpre
        \/ w.n = Len(DATA_FILES) /\ db = CatalogOf(w.files)

\* C3: in a refresh in which a download failed, no EveDB write operation is
\* called and the five tables are those the refresh started with.
C3_FailedDownloadWritesNothing ==
    hist.dlFailed => (hist.storeCalls = 0 /\ db = hist.rpre)

C3_Witness ==
    /\ hist.dlFailed /\ w.pc = "idle" /\ w.n >= 1
    /\ hist.outcome = "error"
    /\ hist.rpre.planets # EmptyTable

\* C4: outside a rebuild the connection's synchronous, temp_store and
\* cache_size are the values the last rebuild was entered with, whether it
\* returned or raised.
C4_PragmasRestored ==
    (w.pc \notin {"b_loop", "b_finally"}) => pragmas = hist.ppre

C4_Witness ==
    /\ w.pc = "returned" /\ w.op = 6 /\ w.err
    /\ pragmas = hist.ppre

\* C5: the worker and the main thread are never both inside an EveDB
\* operation, and no query reads while a rebuild's transaction is open or the
\* indices are dropped.
C5_OneOperationAtATime ==
    /\ ~(WorkerInCS /\ UiInCS)
    /\ ~hist.dirtyRead
    /\ (UiInCS => (w.pc # "b_loop" /\ db.indices = IndexNames))

C5_Witness ==
    /\ ui.pc = "wait" /\ lock = "worker" /\ w.pc = "b_loop" /\ w.inserted > 0

\* C6 as stated: while a refresh is in progress (from fetch_data until its
\* worker has finished) no handler of the main loop queries the store.
C6_NoQueryDuringRefresh ==
    hist.active > 0 => ui.pc = "idle"

\* C7: at most one worker thread is alive, and the Fetch Data button is
\* enabled only when none is.
C7_OneWorker ==
    /\ hist.active <= 1
    /\ ui.fetch_btn = "normal" => hist.active = 0

C7_Witness ==
    /\ hist.fetches = 2 /\ hist.active = 1 /\ w.pc = "b_loop"

\* the region ids asked about
RegionIds == {NULL} \cup (0..3)

\* C10: for every region id the ten counts of counts_by_category_region add
\* up to count_planets_region.
C10_CountsSumToTotal ==
    \A r \in RegionIds :
        SumCounts(counts_by_category_region(db, r)) = count_planets_region(db, r)

C10_Witness ==
    /\ w.pc = "returned"
    /\ \E r \in RegionIds :
        /\ count_planets_region(db, r) >= 2
        /\ counts_by_category_region(db, r)["Lava"] > 0
        /\ counts_by_category_region(db, r)["Barren"] > 0

----------------------------------------------------------------------------
(* Properties of the query methods *)

\* the rows a counts_by_category_* call has in scope
InScope(op, a) ==
    {r \in PlanetRows(db) :
        CASE op = "counts_by_category_system"        -> r.solarSystemID = a
          [] op = "counts_by_category_region"        -> r.regionID = a
          [] op = "counts_by_category_constellation" -> r.constellationID = a
          [] OTHER                                   -> FALSE}

CountsOps == {"counts_by_category_system", "counts_by_category_region",
              "counts_by_category_constellation"}

\* C11: whatever the category column holds, a counts_by_category_* result has
\* the ten categories as its keys, its Barren count is the number of rows in
\* scope that are Barren or of an unknown (or NULL) category, and its counts
\* add up to the number of rows in scope.
C11_UnknownFoldedIntoBarren ==
    result.op \in CountsOps =>
        LET rows == InScope(result.op, result.arg) IN
        /\ DOMAIN result.value = PlanetTypeSet
        /\ result.value["Barren"] =
              Cardinality({r \in rows : r.category = "Barren"})
              + Cardinality({r \in rows : r.category \notin PlanetTypeSet})
        /\ SumCounts(result.value) = Cardinality(rows)

\* C12: planets_in_system lists the bodies by ascending orbital slot, every
\* body without a slot after all the bodies that have one.
C12_NullSlotsLast ==
    result.op = "planets_in_system" =>
        \A i, j \in 1..Len(result.value) :
            LET a == db.planets[result.value[i].itemID].orbitalID
                b == db.planets[result.value[j].itemID].orbitalID
            IN i < j =>
                /\ (a = NULL => b = NULL)
                /\ (a # NULL /\ b # NULL => a <= b)

----------------------------------------------------------------------------
(* Properties of the imports and of the rebuild *)

\* C13: a rebuild that follows a successful rebuild of the same source rows,
\* with no other operation in between, leaves the planets table as the first
\* one left it.
C13_RebuildIdempotent ==
    (w.pc = "returned" /\ w.op = 6 /\ ~w.err /\ hist.last.ok) =>
        db.planets = hist.last.planets

\* a second rebuild returned, of a file in which two accepted rows share an
\* itemID
C13_Witness ==
    /\ w.pc = "returned" /\ w.op = 6 /\ ~w.err /\ hist.last.ok
    /\ w.inserted >= 2
    /\ Cardinality(DOMAIN db.planets) < w.inserted

\* C14: every row of the planets table is of the planet group.
C14_OnlyPlanetGroup ==
    \A k \in DOMAIN db.planets : db.planets[k].groupID = PLANET_GROUP

\* a rebuild returned whose file holds a row of another group with all three
\* ids, and rows were stored
C14_Witness ==
    /\ w.pc = "returned" /\ w.op = 6 /\ ~w.err /\ w.inserted > 0
    /\ \E i \in 1..Len(w.files["mapDenormalize.csv"]) :
          LET r == w.files["mapDenormalize.csv"][i] IN
          /\ try_int(r.groupID) # PLANET_GROUP
          /\ Truthy(try_int(r.itemID))
          /\ Truthy(try_int(r.typeID))
          /\ Truthy(try_int(r.solarSystemID))

\* what the import of one source row alone stores: no row when the source row
\* is not accepted, else one row under its primary key
Single(op, r) == TableOf(Imported(EmptyDb, op, <<r>>), op)

\* the source rows imported since the table was empty, in order: the files
\* whose import succeeded, the file of the call that just returned included
SourceRows(op) ==
    LET RECURSIVE Flat(_)
        Flat(fs) == IF fs = <<>> THEN <<>> ELSE Head(fs) \o Flat(Tail(fs))
    IN Flat(IF w.err THEN hist.log ELSE Append(hist.log, w.files[OpFile[op]]))

\* one row per key of an accepted source row, that of its last occurrence
LastWins(op, rows) ==
    LET Keys == UNION {DOMAIN Single(op, rows[i]) : i \in 1..Len(rows)}
        LastIdx(k) == CHOOSE i \in 1..Len(rows) :
                        /\ k \in DOMAIN Single(op, rows[i])
                        /\ \A j \in (i + 1)..Len(rows) : k \notin DOMAIN Single(op, rows[j])
    IN [k \in Keys |-> Single(op, rows[LastIdx(k)])[k]]

\* C15: after an import call, alone or after earlier imports with no clear in
\* between, the table holds one row per primary key of an accepted source row,
\* with the values of the key's last accepted occurrence (so the order of the
\* source rows matters only for which duplicate wins).
C15_LastOccurrenceWins ==
    (w.pc = "returned" /\ w.op \in 2..5) =>
        TableOf(db, w.op) = LastWins(w.op, SourceRows(w.op))

\* a second region import returned, a key occurring in two accepted rows with
\* different names, and another key stored
C15_Witness ==
    /\ w.pc = "returned" /\ w.op = 3 /\ ~w.err /\ hist.calls = 2
    /\ Cardinality(DOMAIN db.mapRegions) >= 2
    /\ LET rows == SourceRows(3) IN
       \E i, j \in 1..Len(rows) :
          /\ i < j
          /\ DOMAIN Single(3, rows[i]) # {}
          /\ DOMAIN Single(3, rows[i]) = DOMAIN Single(3, rows[j])
          /\ Single(3, rows[i]) # Single(3, rows[j])

\* a source row the rebuild is to reject: not of the planet group, or without
\* an itemID, a typeID or a solarSystemID
Rejected(r) ==
    \/ try_int(r.groupID) # PLANET_GROUP
    \/ try_int(r.itemID) = NULL
    \/ try_int(r.typeID) = NULL
    \/ try_int(r.solarSystemID) = NULL

\* C18: a rebuild stores every source row that is of the planet group and has
\* its three ids, rejects every other row, and returns the number of source
\* rows it did not reject.
C18_RejectedIffMissing ==
    (w.pc = "returned" /\ w.op = 6 /\ ~w.err) =>
        LET file == w.files["mapDenormalize.csv"]
            kept == {i \in 1..Len(file) : ~Rejected(file[i])}
        IN /\ w.inserted = Cardinality(kept)
           /\ DOMAIN db.planets =
                 DOMAIN hist.bpre.planets \cup {try_int(file[i].itemID) : i \in kept}

----------------------------------------------------------------------------
(* Properties of the listings, the totals and the names *)

\* a text without its leading and trailing spaces
RECURSIVE TrimLeft(_)
TrimLeft(t) == IF t # <<>> /\ Head(t) = " " THEN TrimLeft(Tail(t)) ELSE t

RECURSIVE TrimRight(_)
TrimRight(t) ==
    IF t # <<>> /\ t[Len(t)] = " " THEN TrimRight(SubSeq(t, 1, Len(t) - 1)) ELSE t

\* a name that is not null, not blank after trimming and not  no name  in any
\* letter case
NameListed(name) ==
    /\ name # NoneStr
    /\ TrimRight(TrimLeft(name)) # <<>>
    /\ Lower(name) # Lower(nNoName)

\* C16: at each of the three levels a row is listed, and counted by the total,
\* exactly when its name is not null, not blank after trimming and not
\* no name  in any letter case; total_regions() is the number of entries of
\* list_regions().
C16_SameNameFilter ==
    /\ total_regions(db) = Cardinality(list_regions(db))
    /\ result.op = "list_regions" =>
          result.value = {k \in DOMAIN db.mapRegions :
                            NameListed(db.mapRegions[k].regionName)}
    /\ result.op = "total_regions" =>
          result.value = Cardinality({k \in DOMAIN db.mapRegions :
                                        NameListed(db.mapRegions[k].regionName)})
    /\ result.op = "constellations_in_region" =>
          result.value = {k \in DOMAIN db.mapConstellations :
                            /\ db.mapConstellations[k].regionID = result.arg
                            /\ NameListed(db.mapConstellations[k].constellationName)}
    /\ result.op = "total_constellations" =>
          result.value = Cardinality({k \in DOMAIN db.mapConstellations :
                                        NameListed(db.mapConstellations[k].constellationName)})
    /\ result.op = "systems_in_constellation" =>
          result.value = {k \in DOMAIN db.mapSolarSystems :
                            /\ db.mapSolarSystems[k].constellationID = result.arg
                            /\ NameListed(db.mapSolarSystems[k].solarSystemName)}
    /\ result.op = "total_systems" =>
          result.value = Cardinality({k \in DOMAIN db.mapSolarSystems :
                                        NameListed(db.mapSolarSystems[k].solarSystemName)})

\* total_regions returned 1 on a store with a region named NO NAME and a
\* region with a name
C16_Witness ==
    /\ result.op = "total_regions" /\ result.value = 1
    /\ \E k \in DOMAIN db.mapRegions : db.mapRegions[k].regionName = nNONAME
    /\ \E k \in DOMAIN db.mapRegions : db.mapRegions[k].regionName = nForge

\* the sum of count_planets_region over a set of regions
RECURSIVE SumRegionCounts(_, _)
SumRegionCounts(d, rs) ==
    IF rs = {} THEN 0
    ELSE LET r == CHOOSE x \in rs : TRUE
         IN count_planets_region(d, r) + SumRegionCounts(d, rs \ {r})

\* C17: total_planets() is the sum of count_planets_region over the regions
\* list_regions() returns; the bodies of a region that is not listed are in
\* that region's count and not in the total.
C17_TotalOverListedRegions ==
    total_planets(db) = SumRegionCounts(db, list_regions(db))

\* after a rebuild: a region named No Name with bodies, and bodies in a listed
\* region
C17_Witness ==
    /\ w.pc = "returned" /\ w.op = 6 /\ ~w.err /\ w.inserted > 0
    /\ total_planets(db) > 0
    /\ \E r \in DOMAIN db.mapRegions :
          /\ Lower(db.mapRegions[r].regionName) = Lower(nNoName)
          /\ count_planets_region(db, r) > 0

\* int() of a text of decimal digits, -1 for any other text
RECURSIVE ParseDecimal(_)
ParseDecimal(t) ==
    IF t = <<>> \/ t = NoneStr THEN -1
    ELSE LET c == t[Len(t)]
             d == IF \E i \in 1..Len(Digits) : Digits[i] = c
                  THEN (CHOOSE i \in 1..Len(Digits) : Digits[i] = c) - 1 ELSE -1
             rest == SubSeq(t, 1, Len(t) - 1)
         IN IF d = -1 THEN -1
            ELSE IF rest = <<>> THEN d
            ELSE IF ParseDecimal(rest) = -1 THEN -1
            ELSE 10 * ParseDecimal(rest) + d

NameOps == {"region_name", "constellation_name", "system_name"}

\* the name column of the row an id has in the table of a *_name method
StoredNames(op) ==
    CASE op = "region_name" ->
            [k \in DOMAIN db.mapRegions |-> db.mapRegions[k].regionName]
      [] op = "constellation_name" ->
            [k \in DOMAIN db.mapConstellations |-> db.mapConstellations[k].constellationName]
      [] op = "system_name" ->
            [k \in DOMAIN db.mapSolarSystems |-> db.mapSolarSystems[k].solarSystemName]

\* C20: region_name, constellation_name and system_name return the stored
\* name of an id that has a row and the decimal text of an id that has none.
C20_NameOrDecimalId ==
    result.op \in NameOps =>
        IF result.arg \in DOMAIN StoredNames(result.op)
        THEN result.value = StoredNames(result.op)[result.arg]
        ELSE /\ result.value # <<>>
             /\ Head(result.value) # "0"
             /\ ParseDecimal(result.value) = result.arg

\* a name asked for an id of several digits that has no row, in a store that
\* has rows
C20_Witness ==
    /\ result.op = "system_name" /\ result.arg = MissingId
    /\ Len(result.value) > 1
    /\ db.mapSolarSystems # EmptyTable

----------------------------------------------------------------------------
(* Properties of the order of a refresh *)

\* the store calls of a refresh in the order claimed, each entered and returned
StoreOrder ==
    << <<"entered", "clear_all">>, <<"returned", "clear_all">>,
       <<"entered", "import_csv_invTypes">>, <<"returned", "import_csv_invTypes">>,
       <<"entered", "import_csv_mapRegions">>, <<"returned", "import_csv_mapRegions">>,
       <<"entered", "import_csv_mapConstellations">>,
       <<"returned", "import_csv_mapConstellations">>,
       <<"entered", "import_csv_mapSolarSystems">>,
       <<"returned", "import_csv_mapSolarSystems">>,
       <<"entered", "build_planets_from_mapDenormalize">>,
       <<"returned", "build_planets_from_mapDenormalize">> >>

SourceFiles == {"invTypes.csv", "mapDenormalize.csv", "mapSolarSystems.csv",
                "mapConstellations.csv", "mapRegions.csv"}

\* the number of files fetched at the head of the steps
Fetches(steps) == Cardinality({i \in 1..Len(steps) : steps[i][1] = "fetched"})

\* C19: in a refresh the five source files are fetched first, then clear_all,
\* then the imports of types, regions, constellations and solar systems, then
\* the rebuild, each call entered after the one before it returned.
C19_RefreshOrder ==
    LET steps == hist.steps
        n == Fetches(steps)
        calls == SubSeq(steps, n + 1, Len(steps))
    IN /\ \A i \in 1..n : steps[i][1] = "fetched"
       /\ \A i, j \in 1..n : steps[i] = steps[j] => i = j
       /\ calls # <<>> => {steps[i][2] : i \in 1..n} = SourceFiles
       /\ Len(calls) <= Len(StoreOrder)
       /\ calls = SubSeq(StoreOrder, 1, Len(calls))
       /\ w.driver = "work" /\ w.pc \in {"b_loop", "b_finally"} =>
             \E i \in 1..Len(steps) : steps[i] = <<"returned", "import_csv_invTypes">>

\* a refresh ran to its end
C19_Witness ==
    /\ w.pc = "idle" /\ hist.outcome = "done"
    /\ Len(hist.steps) = Cardinality(SourceFiles) + Len(StoreOrder)
    /\ db.planets # EmptyTable

----------------------------------------------------------------------------
(* Properties of a failed import *)

\* C21: when an import call raises, whatever it had written is gone: its table
\* is as the call found it, or as it was last committed before the call (the
\* rollback also undoes an earlier clear_all that raised half-way).
C21_ImportAllOrNothing ==
    (w.pc = "returned" /\ w.op \in 2..5 /\ w.err) =>
        \/ TableOf(db, w.op) = hist.imp.pre
        \/ TableOf(db, w.op) = TableOf(saved, w.op)

\* an import raised after a full batch was written, into a table holding rows
C21_Witness ==
    /\ w.pc = "returned" /\ w.op \in 2..5 /\ w.err
    /\ hist.imp.written >= BATCH_SIZE
    /\ hist.imp.pre # EmptyTable
    /\ Imported(db, w.op, w.files[OpFile[w.op]]) # db

----------------------------------------------------------------------------
(* Properties of the tree *)

\* C22: in a region view the systems of a constellation node and the bodies
\* of a system node are queried at most once, and only by a handler that
\* expands the node.
C22_ChildrenLoadedOnce ==
    /\ \A c \in DOMAIN ui.consts : ui.consts[c].q <= 1
    /\ \A s \in DOMAIN ui.systems : ui.systems[s].q <= 1
    /\ ~ui.cold

\* a constellation without systems expanded more than once, and a system
\* with bodies expanded more than once and collapsed
C22_Witness ==
    /\ \E c \in DOMAIN ui.consts :
          ui.consts[c].x >= 2 /\ ui.consts[c].q = 1 /\ ui.consts[c].kids = <<>>
    /\ \E s \in DOMAIN ui.systems :
          /\ ui.systems[s].x >= 2 /\ ui.systems[s].q = 1
          /\ Len(ui.systems[s].kids) >= 2 /\ ~ui.systems[s].open

----------------------------------------------------------------------------
(* Properties of the end of a refresh *)

\* the controls as enable_and_refresh leaves them: the button and the sidebar
\* enabled, the region list and the totals those of the store
Refreshed ==
    /\ ui.pc = "idle"
    /\ ui.fetch_btn = "normal" /\ ui.sidebar = "normal"
    /\ ui.regions = list_regions(db)
    /\ ui.counts = refresh_counts(db)

\* C23: every refresh that is started comes to a state where no worker runs,
\* the Fetch Data button and the sidebar are enabled again, and the region
\* list and the totals show the store as the refresh left it, whether the
\* worker returned or raised in the download, clear_all, an import or the
\* rebuild
C23_ControlsComeBack ==
    (hist.active > 0) ~> (hist.active = 0 /\ Refreshed)

\* a refresh that failed after it changed the store has ended: the dialog is
\* closed, the controls are enabled, and the list and the totals are those of
\* the store, which are no longer the ones shown before the refresh
C23_Witness ==
    /\ hist.fetches >= 1 /\ hist.active = 0 /\ hist.outcome = "error"
    /\ afterq = <<>> /\ Refreshed
    /\ ui.counts # refresh_counts(hist.rpre)

============================================================================
